---- MODULE Spec2Model ----
(***************************************************************************)
(* useBacklinkRecommendations (src/unnamed/part_000): the recommendation   *)
(* hook of the Wikipedia reader.  One state machine: the hook's observable *)
(* state (loading, error), the visited history it closes over, and every   *)
(* getRecommendations invocation with its locals and its position.  The    *)
(* code between two awaits runs to completion on the JS event loop, so     *)
(* each action is one such synchronous stretch.  The hook's fetches go     *)
(* through the QueryClient created in the app layout                       *)
(* (src/components/article/ArticleRenderers.tsx, lines 215-222); the       *)
(* query cache behind fetchQuery is a second state machine, SpecCache.     *)
(***************************************************************************)
EXTENDS Integers, Sequences, FiniteSets, TLC

\* ------------------------------------------------------------- bounds
MaxCalls == 2
MaxLimit == 3
MaxVisited == 2
MaxLinks == 2
MaxRequests == 3
MaxTicks == 3
MaxShuffle == 5
MaxAxRequests == 3

\* fetchFeaturedContent: the days "today" is drawn from are 1..MaxDay
MaxDay == 2

\* fetchConcurrently: the longest items list
MaxItems == 3

\* ArticleSectionedRenderer: the most <h2> sections of an article
MaxSections == 2

\* ------------------------------------------------------------- constants
\* limit + 5: the slack of fetchLimit
SLACK == 5

\* RATE_LIMIT_CONFIG.MIN_INTERVAL_MS
MIN_INTERVAL_MS == 5

\* retry: 3, the library's default for useQuery, in place of the client's 2
RETRY_THRICE == 2 + 1

\* retry of the QueryClient's defaultOptions.queries
RETRY == 2

NoError == "null"
ErrorMessage == "Failed to fetch recommendations"

\* The arguments of the overlapping-calls workload (SpecOverlap): every call
\* on a non-empty history has a fetch in flight, and the calls differ in how
\* they end, not in their data.
OverlapLimits == {1}

\* Titles of the visited history, most recent first; a history is a prefix.
VisitedPool == <<"A", "B", "C", "D">>
\* Titles a link list may hold: one visited title and two that are not.
LinkTitles == {"A", "X", "Y"}
\* Titles a summary record may carry (the API resolves redirects, so the
\* record's title need not be the title that was asked for).
SummaryTitles == {"A", "X", "Y"}

Calls == 1..MaxCalls

VARIABLES
  visitedArticles,   \* the history the hook closes over
  loading,           \* useState(false)
  error,             \* useState(null)
  pc,                \* per call: "idle", "links", "summaries", "done"
  limit,             \* per call: the argument
  sourceArticles,    \* per call: the sampled titles
  linkKinds,         \* per call: per source, "article-backlinks" or "article-links"
  linkFetch,         \* per call: per source, the state of its fetchQuery promise
  allCandidates,     \* per call: the merged titles, as they are before the shuffle
  candidateTitles,   \* per call: allCandidates.slice(0, limit)
  summaryFetch,      \* per call: per started resolution, the state of its fetchQuery promise
  settleOrder,       \* per call (history): the summary slots in the order they settled
  returned,          \* per call: the list the promise resolved to
  exit,              \* per call: "none", "early", "return", "catch", "rejected"
  overlap,           \* per call (history): "no", "atStart" (invoked while another
                     \* call was in flight), "during" (another call was invoked
                     \* while it was in flight)
  now,               \* the clock, in ms
  cache,             \* per query key: the entry of the query cache
  fetching,          \* per query key: the fetch in flight, and its failed attempts
  running,           \* per query key: the queryFn invocations in flight
  fetchCalls,        \* per query key (history): the queryFn invocations of its latest fetch
  lastOutcome,       \* per query key (history): how its latest fetch ended
  requests,          \* per fetchQuery call: its key, its promise, and how it was served
  shufflePc,         \* the shuffle on its own: "idle", "done"
  shuffleInput,      \* the list handed to the shuffle
  shuffleRandom,     \* per loop index i, the j that Math.random() gave
  shuffleOutput,     \* the list after the loop
  timeSinceLastRequest, \* Date.now() - lastRequestTime, in ms, as far as the
                     \* interceptor can tell values apart: MIN_INTERVAL_MS stands
                     \* for every larger value
  axReq,             \* per axiosInstance request: where it is, its timers, and
                     \* the last answer to it
  featPc,            \* fetchFeaturedContent: "idle", "today", "yesterday" (the
                     \* request it awaits), "returned", "thrown"
  featToday,         \* the day of new Date()
  featUrls,          \* the days whose feed was requested, in order
  featOut,           \* what it returned or threw
  fcPc,              \* fetchConcurrently: "idle", "awaiting", "returned", "rejected"
  fcItems,           \* its items argument
  fcOutcomes,        \* per position, how requestFn(item) will settle
  fcIndex,           \* the position of the loop
  fcInFlight,        \* the positions whose requestFn call has not settled
  fcCalled,          \* the positions requestFn was called for, in call order
  fulfilledResults,  \* the local of that name
  mounted,           \* ArticleSectionedRenderer: TRUE once the component is mounted
  articleHtml,       \* its articleHtml prop, as far as the extraction looks at it
  sections,          \* the state of that name
  expandedId,        \* the state of that name; "null" for null
  rendered,          \* the sections of the last render: what the accordions
                     \* on screen and the onAccordionPress closure hold
  renderPending,     \* TRUE when a state update has not been rendered yet
  preload            \* the preload run of the last effect that is not cancelled

hookVars == <<visitedArticles, loading, error, pc, limit, sourceArticles, linkKinds,
              linkFetch, allCandidates, candidateTitles, summaryFetch, settleOrder,
              returned, exit, overlap>>

cacheVars == <<now, cache, fetching, running, fetchCalls, lastOutcome, requests>>

shuffleVars == <<shufflePc, shuffleInput, shuffleRandom, shuffleOutput>>

axiosVars == <<timeSinceLastRequest, axReq>>

featuredVars == <<featPc, featToday, featUrls, featOut>>

concurrentlyVars ==
  <<fcPc, fcItems, fcOutcomes, fcIndex, fcInFlight, fcCalled, fulfilledResults>>

rendererVars ==
  <<mounted, articleHtml, sections, expandedId, rendered, renderPending, preload>>

\* The variables of the other components, which the hook and the query cache
\* leave alone
extVars == <<shuffleVars, axiosVars, featuredVars, concurrentlyVars, rendererVars>>

\* Per component, the variables of the other components
notShuffle ==
  <<hookVars, cacheVars, axiosVars, featuredVars, concurrentlyVars, rendererVars>>

notAxios ==
  <<hookVars, cacheVars, shuffleVars, featuredVars, concurrentlyVars, rendererVars>>

notFeatured == <<hookVars, cacheVars, shuffleVars, concurrentlyVars, rendererVars>>

notConcurrently ==
  <<hookVars, cacheVars, shuffleVars, axiosVars, featuredVars, rendererVars>>

notRenderer ==
  <<hookVars, cacheVars, shuffleVars, axiosVars, featuredVars, concurrentlyVars>>

vars == <<visitedArticles, loading, error, pc, limit, sourceArticles, linkKinds,
          linkFetch, allCandidates, candidateTitles, summaryFetch, settleOrder,
          returned, exit, overlap,
          now, cache, fetching, running, fetchCalls, lastOutcome, requests,
          shufflePc, shuffleInput, shuffleRandom, shuffleOutput,
          timeSinceLastRequest, axReq,
          featPc, featToday, featUrls, featOut,
          fcPc, fcItems, fcOutcomes, fcIndex, fcInFlight, fcCalled, fulfilledResults,
          mounted, articleHtml, sections, expandedId, rendered, renderPending, preload>>

\* ------------------------------------------------------------- helpers
Min(a, b) == IF a < b THEN a ELSE b

\* Math.ceil(limit / 2) for a natural limit
CeilHalf(n) == (n + 1) \div 2

Range(s) == {s[i] : i \in 1..Len(s)}

\* Array.prototype.slice(0, n) for n >= 0
Slice(s, n) == SubSeq(s, 1, Min(n, Len(s)))

RemoveAt(s, i) == SubSeq(s, 1, i - 1) \o SubSeq(s, i + 1, Len(s))

Swap(s, i, j) == [s EXCEPT ![i] = s[j], ![j] = s[i]]

\* ------------------------------------------------------------- fetch outcomes
Pending == [st |-> "pending", data |-> <<>>]
Failed == [st |-> "fail", data |-> <<>>]
\* a fetch that resolved to null
NullValue == [st |-> "null", data |-> <<>>]

RECURSIVE ListsUpTo(_, _)
\* The lists of at most n titles of S
ListsUpTo(S, n) ==
  IF n = 0 THEN {<<>>}
  ELSE LET shorter == ListsUpTo(S, n - 1)
       IN shorter \cup {Append(s, x) : s \in {t \in shorter : Len(t) = n - 1}, x \in S}

\* What a backlinks / forward-links fetchQuery may settle to: a failure, a
\* value that is no list, or a list that names each page once (a title can
\* still occur in the lists of two sources).
LinkOutcomes ==
  {Failed, NullValue} \cup
  {[st |-> "ok", data |-> l] :
     l \in {m \in ListsUpTo(LinkTitles, MaxLinks) :
              \A i, j \in 1..Len(m) : i # j => m[i] # m[j]}}

\* What a summary fetchQuery may settle to; data is <<record title>>.
SummaryOutcomes ==
  {Failed, NullValue} \cup {[st |-> "ok", data |-> <<t>>] : t \in SummaryTitles}

\* Settled as Promise.race would have it: the first settled fetch is enough
SettledAny(fetches) ==
  Len(fetches) = 0 \/ \E i \in 1..Len(fetches) : fetches[i].st # "pending"

\* await Promise.all(...): no fetch of the stage is pending
Settled(fetches) == \A i \in 1..Len(fetches) : fetches[i].st # "pending"

\* ------------------------------------------------------------- sampler
\* The draws Math.random() can give the sampler: the i-th randomIndex is
\* below the size of the pool at that iteration.
SampleDraws(n, k) == {d \in [1..k -> 0..(n - 1)] : \A i \in 1..k : d[i] <= n - i}

RECURSIVE SampleFromWithReplacement(_, _, _)
\* SampleFrom without availableIndices.delete(selectedIndex)
SampleFromWithReplacement(pool, draws, i) ==
  IF i > Len(draws) \/ Len(pool) = 0 THEN <<>>
  ELSE LET selectedIndex == pool[draws[i] + 1]
       IN <<selectedIndex>> \o SampleFromWithReplacement(pool, draws, i + 1)

RECURSIVE SampleFrom(_, _, _)
\* pool: Array.from(availableIndices); one loop iteration per draw
SampleFrom(pool, draws, i) ==
  IF i > Len(draws) \/ Len(pool) = 0 THEN <<>>
  ELSE LET selectedIndex == pool[draws[i] + 1]
       IN <<selectedIndex>> \o SampleFrom(RemoveAt(pool, draws[i] + 1), draws, i + 1)

\* maxSourceArticles
MaxSourceArticles(visited, lim) == Min(Len(visited), CeilHalf(lim))

\* sourceArticles, as titles
SampleSources(visited, draws) ==
  LET picked == SampleFrom([i \in 1..Len(visited) |-> i - 1], draws, 1)
  IN [i \in 1..Len(picked) |-> visited[picked[i] + 1]]

\* ------------------------------------------------------------- link stage
RECURSIVE LinkKindsBoth(_, _)
\* LinkKinds that fetches the backlinks and the forward links of each source
LinkKindsBoth(sources, useBacklinks) ==
  IF Len(sources) = 0 THEN <<>>
  ELSE <<"article-backlinks", "article-links">> \o
       LinkKindsBoth(Tail(sources), useBacklinks)

\* sourceArticles.map: per source one fetchQuery, whose queryKey kind the coin
\* Math.random() > 0.5 chooses
LinkKinds(sources, useBacklinks) ==
  [i \in 1..Len(sources) |->
     IF useBacklinks[i] THEN "article-backlinks" ELSE "article-links"]

\* LinkResult with the per-fetch try/catch missing: the failure reaches the merge
LinkResultRethrows(f) == IF f.st = "fail" THEN NullValue ELSE f

\* The value one linkPromise resolves to: the fetched value, or [] when the
\* fetch threw.  data <<>> with st "null" stands for a value that is no list.
LinkResult(f) == IF f.st = "fail" THEN [st |-> "ok", data |-> <<>>] ELSE f

LinkResults(fetches) == [i \in 1..Len(fetches) |-> LinkResult(fetches[i])]

\* for (const title of linkList) throws on a value that is not iterable
MergeThrows(results) == \E i \in 1..Len(results) : results[i].st # "ok"

RECURSIVE Flatten(_)
Flatten(results) ==
  IF Len(results) = 0 THEN <<>> ELSE Head(results).data \o Flatten(Tail(results))

RECURSIVE FilterCandidatesNoDedup(_, _, _)
\* FilterCandidates without the processedTitles test
FilterCandidatesNoDedup(titles, visitedTitlesSet, processedTitles) ==
  IF Len(titles) = 0 THEN <<>>
  ELSE LET title == Head(titles)
       IN IF title \notin visitedTitlesSet
          THEN <<title>> \o FilterCandidatesNoDedup(Tail(titles), visitedTitlesSet,
                                                    processedTitles)
          ELSE FilterCandidatesNoDedup(Tail(titles), visitedTitlesSet, processedTitles)

RECURSIVE FilterCandidates(_, _, _)
\* the single pass over the flattened titles with visitedTitlesSet and processedTitles
FilterCandidates(titles, visitedTitlesSet, processedTitles) ==
  IF Len(titles) = 0 THEN <<>>
  ELSE LET title == Head(titles)
       IN IF title \notin visitedTitlesSet /\ title \notin processedTitles
          THEN <<title>> \o FilterCandidates(Tail(titles), visitedTitlesSet,
                                             processedTitles \cup {title})
          ELSE FilterCandidates(Tail(titles), visitedTitlesSet, processedTitles)

\* AllCandidates without the visitedTitlesSet test
AllCandidatesKeepVisited(results, visited) == FilterCandidates(Flatten(results), {}, {})

\* allCandidates before the shuffle
AllCandidates(results, visited) == FilterCandidates(Flatten(results), Range(visited), {})

\* ------------------------------------------------------------- shuffle
ShuffleDraws(n) == {d \in [1..(n - 1) -> 0..(n - 1)] : \A i \in 1..(n - 1) : d[i] <= i}

RECURSIVE FisherYatesSkipsLast(_, _, _)
\* FisherYates whose loop condition is i > 1: the swap at index 1 is skipped
FisherYatesSkipsLast(a, draws, i) ==
  IF i <= 1 THEN a ELSE FisherYatesSkipsLast(Swap(a, i + 1, draws[i] + 1), draws, i - 1)

RECURSIVE FisherYates(_, _, _)
\* for (i = length - 1; i > 0; i--) swap(i, j) with j = draws[i]; indices 0-based
FisherYates(a, draws, i) ==
  IF i <= 0 THEN a ELSE FisherYates(Swap(a, i + 1, draws[i] + 1), draws, i - 1)

Shuffle(a, draws) == FisherYates(a, draws, Len(a) - 1)

\* ------------------------------------------------------------- summary stage
\* candidateTitles.push(...allCandidates.slice(0, limit))
SelectCandidates(shuffled, lim) == Slice(shuffled, lim)

\* fetchLimit
FetchLimit(cands, lim) == Min(Len(cands), lim + SLACK)

\* The number of summary promises the loop creates: its condition reads
\* recommendations.length, which is 0 until the promises have settled.
SummariesStarted(cands, lim) == IF 0 < lim THEN FetchLimit(cands, lim) ELSE 0

\* The displaytitle of a summary record: markup, never the bare title
DisplayTitle == "<span>title</span>"

\* The item built from a summary record with title t; its description,
\* extract, thumbnail and pageid are present
FullItem(t) == [title |-> t, displaytitle |-> DisplayTitle, summary |-> TRUE]

\* StubItem with the displaytitle left out
StubItemUntitled(title) == [title |-> title, displaytitle |-> "", summary |-> FALSE]

\* The degraded item of the catch branch: title and displaytitle only
StubItem(title) == [title |-> title, displaytitle |-> title, summary |-> FALSE]

\* SummaryResult whose catch branch returns null instead of the stub
SummaryResultDropsFailed(title, f) ==
  IF f.st = "ok" THEN <<FullItem(f.data[1])>> ELSE <<>>

\* What one summary promise resolves to: <<item>>, or <<>> for null
SummaryResult(title, f) ==
  IF f.st = "fail" THEN <<StubItem(title)>>
  ELSE IF f.st = "ok" THEN <<FullItem(f.data[1])>>
  ELSE <<>>

SummaryResults(cands, fetches) ==
  [i \in 1..Len(fetches) |-> SummaryResult(cands[i], fetches[i])]

RECURSIVE Collect(_, _, _)
\* for (const result of results) if (result && recommendations.length < limit) push
Collect(results, recommendations, lim) ==
  IF Len(results) = 0 THEN recommendations
  ELSE Collect(Tail(results),
               IF Len(Head(results)) > 0 /\ Len(recommendations) < lim
               THEN recommendations \o Head(results) ELSE recommendations,
               lim)

Recommendations(cands, fetches, lim) == Collect(SummaryResults(cands, fetches), <<>>, lim)

\* ------------------------------------------------------------- query cache
\* The fetch layer behind queryClient.fetchQuery, as the hook uses it: one
\* entry per query key, a per-call staleTime, and the client's retry.  gcTime
\* (30 min) is beyond the horizon of MaxTicks clock steps and evicts only
\* entries that are stale already, so eviction is not modelled.
Kinds == {"article-backlinks", "article-links", "article"}

\* queryKey: [kind, title]
QueryKey(kind, title) == <<kind, title>>

\* The keys the fetchQuery calls of the hook form for one title
CacheKeys == {QueryKey(kind, "A") : kind \in Kinds}

Requests == 1..MaxRequests

\* staleTime of the client's defaultOptions.queries
DEFAULT_STALE_TIME == 5 * 60 * 1000

\* StaleTime when the fetchQuery calls pass no staleTime of their own
StaleTimeDefault(kind) == DEFAULT_STALE_TIME

\* The staleTime option of the fetchQuery call for a key of this kind
StaleTime(kind) ==
  IF kind = "article" THEN 5 * 60 * 1000 ELSE 10 * 60 * 1000

\* The step of the clock: entries are observed at ages 0, 5, 10, ... minutes
ClockStep == 5 * 60 * 1000

NoEntry == [has |-> FALSE, version |-> 0, updatedAt |-> 0]

NoRequest == [st |-> "idle", key |-> <<>>, value |-> 0, via |-> "none"]

\* An entry is fresh while its age is below the staleTime of the call
Fresh(k) == cache[k].has /\ now - cache[k].updatedAt < StaleTime(k[1])

CacheInit ==
  /\ now = 0
  /\ cache = [k \in CacheKeys |-> NoEntry]
  /\ fetching = [k \in CacheKeys |-> [active |-> FALSE, failureCount |-> 0]]
  /\ running = [k \in CacheKeys |-> 0]
  /\ fetchCalls = [k \in CacheKeys |-> 0]
  /\ lastOutcome = [k \in CacheKeys |-> "none"]
  /\ requests = [r \in Requests |-> NoRequest]

\* ------------------------------------------------------------- other components
\* A title pool for the shuffle on its own: a list of distinct titles
ShufflePool == <<"P", "Q", "R", "S", "T", "U", "V">>

ShuffleIdle ==
  /\ shufflePc = "idle"
  /\ shuffleInput = <<>>
  /\ shuffleRandom = <<>>
  /\ shuffleOutput = <<>>

\* ------------------------------------------------------------- axiosInstance
\* src/api/featured/fetchTrendingArticles.ts, lines 75-185: the single Axios
\* instance of the Wikipedia API calls, its request interceptor (the rate
\* limiter) and its response interceptor (the re-sends).
AxRequests == 1..MaxAxRequests

\* A Retry-After header that gives an HTTP date instead of seconds
HttpDate == "Wed, 21 Oct 2026 07:28:00 GMT"

\* What parseInt gives on a string that does not start with a number
NaN == 0 - 1

\* What the server, the network or the adapter may answer to one send.
\* axios: isAxiosError(error); status 0: an error without a response.
Answer(axios, status, retryAfter, code, data) ==
  [axios |-> axios, status |-> status, retryAfter |-> retryAfter, code |-> code,
   data |-> data]

NoAnswer == Answer(TRUE, 0, "", "", "")

\* 200 with a body, and 200 with an empty body
OkAnswers == {Answer(TRUE, 200, "", "", "feed"), Answer(TRUE, 200, "", "", "")}

RateLimitedAnswers ==
  {Answer(TRUE, 429, h, "ERR_BAD_REQUEST", "") : h \in {"", "0", "2", HttpDate}}

ServerErrorAnswers ==
  {Answer(TRUE, st, "", "ERR_BAD_RESPONSE", "") : st \in {500, 504}}

\* Failures that are neither 429 nor 5xx: a 404, a timeout, a network error,
\* and an error that is no AxiosError
OtherFailures ==
  {Answer(TRUE, 404, "", "ERR_BAD_REQUEST", ""),
   Answer(TRUE, 0, "", "ECONNABORTED", ""),
   Answer(TRUE, 0, "", "ERR_NETWORK", ""),
   Answer(FALSE, 0, "", "", "")}

AxAnswers == OkAnswers \cup RateLimitedAnswers \cup ServerErrorAnswers \cup OtherFailures

\* parseInt(s, 10) on the header values the model uses
ParseInt(str) ==
  CASE str = "0" -> 0
    [] str = "1" -> 1
    [] str = "2" -> 2
    [] OTHER -> NaN

\* RetryAfterMs without the factor 1000
RetryAfterMsUnscaled(header) ==
  LET n == ParseInt(IF header = "" THEN "1" ELSE header)
  IN n

\* retryAfter: parseInt(headers['retry-after'] || '1', 10) * 1000
RetryAfterMs(header) ==
  LET n == ParseInt(IF header = "" THEN "1" ELSE header)
  IN IF n = NaN THEN NaN ELSE n * 1000

\* The delay setTimeout uses: NaN counts as 0
TimeoutDelay(ms) == IF ms = NaN THEN 0 ELSE ms

\* pc: "idle", "limited" (waiting in the request interceptor), "sent",
\* "backoff" (waiting in the response interceptor), "fulfilled", "rejected"
AxIdleRequest ==
  [pc |-> "idle", waitTime |-> 0, delay |-> 0, answer |-> NoAnswer, resent |-> FALSE]

AxiosIdle ==
  /\ timeSinceLastRequest = MIN_INTERVAL_MS
  /\ axReq = [r \in AxRequests |-> AxIdleRequest]

\* ------------------------------------------------------------- fetchFeaturedContent
\* src/api/featured/fetchFeaturedContent.ts
FeatDays == 1..MaxDay

\* The error of line 46
NotAvailable == "Featured content not available for current or previous day"

\* null, and every other falsy response.data
Null == ""

FeaturedIdle ==
  /\ featPc = "idle"
  /\ featToday = 0
  /\ featUrls = <<>>
  /\ featOut = [data |-> Null, error |-> NoAnswer, message |-> ""]

\* ------------------------------------------------------------- fetchConcurrently
\* src/api/featured/fetchTrendingArticles.ts, lines 166-185
FcItemPool == {"x", "y"}

\* The items lists of up to n items
FcItemLists(n) == UNION {[1..k -> FcItemPool] : k \in 0..n}

\* What requestFn(item) fulfils with
FcResult(item) == <<"result", item>>

ConcurrentlyIdle ==
  /\ fcPc = "idle"
  /\ fcItems = <<>>
  /\ fcOutcomes = <<>>
  /\ fcIndex = 0
  /\ fcInFlight = {}
  /\ fcCalled = <<>>
  /\ fulfilledResults = <<>>

\* ------------------------------------------------------------- ArticleSectionedRenderer
\* src/components/article/ArticleSectionedRenderer.tsx, and the extraction
\* and parse helpers of src/utils/articleParsing.ts
\* `section-${i}` for i = 0, 1, ...
SectionIdPool ==
  <<"section-0", "section-1", "section-2", "section-3", "section-4", "section-5">>

SectionId(i) == SectionIdPool[i + 1]

\* HTML that parseDocument throws on, and HTML it parses
Malformed == "<malformed>"

WellFormed == "<p></p>"

\* An article, as far as extractInfobox, extractIntro and splitIntoSections
\* look at it: whether it has an infobox table, how many <h2>...</h2>
\* headings it has, whether it has an <h2> tag that is never closed, and
\* the parts whose HTML does not parse
Article(infobox, headings, unclosed, broken) ==
  [infobox |-> infobox, headings |-> headings, unclosed |-> unclosed,
   broken |-> broken]

NoArticle == Article(FALSE, 0, FALSE, {})

\* splitIntoSections (articleParsing.ts lines 61-90): the ids of the sections
SplitIntoSections(article) ==
  IF article.headings > 0
  THEN [i \in 1..article.headings |-> SectionId(i - 1)]
  ELSE IF article.unclosed THEN <<SectionId(0)>> ELSE <<>>

\* One SectionState (lines 55-62)
SectionState(article, id) ==
  [id |-> id, html |-> IF id \in article.broken THEN Malformed ELSE WellFormed,
   preloaded |-> FALSE, loading |-> FALSE, error |-> "null"]

\* initialSections (lines 51-87)
InitialSections(article) ==
  LET ids == (IF article.infobox THEN <<"infobox">> ELSE <<>>) \o <<"intro">>
               \o SplitIntoSections(article)
  IN [i \in 1..Len(ids) |-> SectionState(article, ids[i])]

\* The ids an accordion may have
AccordionIds == {"infobox", "intro"} \cup {SectionId(i) : i \in 0..(MaxSections - 1)}

\* The articles of up to n headings in which only parts among ids may fail
\* to parse; an unclosed <h2> tag makes a difference only without headings
Articles(n, ids) ==
  {a \in {Article(infobox, headings, unclosed, broken) :
            infobox \in BOOLEAN, headings \in 0..n, unclosed \in BOOLEAN,
            broken \in SUBSET ids} :
     a.unclosed => a.headings = 0}

\* No preload run
NoPreload == [pc |-> "none", closure |-> <<>>, expanded |-> "null", at |-> 0]

RendererIdle ==
  /\ mounted = FALSE
  /\ articleHtml = NoArticle
  /\ sections = <<>>
  /\ expandedId = "null"
  /\ rendered = <<>>
  /\ renderPending = FALSE
  /\ preload = NoPreload

\* Every component but the hook and the query cache, before it has run
ExtIdle ==
  ShuffleIdle /\ AxiosIdle /\ FeaturedIdle /\ ConcurrentlyIdle /\ RendererIdle

\* ------------------------------------------------------------- state
InFlight(c) == pc[c] \in {"links", "summaries"}

Histories(n) == {SubSeq(VisitedPool, 1, k) : k \in 0..n}

InitWith(histories) ==
  /\ visitedArticles \in histories
  /\ loading = FALSE
  /\ error = NoError
  /\ pc = [c \in Calls |-> "idle"]
  /\ limit = [c \in Calls |-> 0]
  /\ sourceArticles = [c \in Calls |-> <<>>]
  /\ linkKinds = [c \in Calls |-> <<>>]
  /\ linkFetch = [c \in Calls |-> <<>>]
  /\ allCandidates = [c \in Calls |-> <<>>]
  /\ candidateTitles = [c \in Calls |-> <<>>]
  /\ summaryFetch = [c \in Calls |-> <<>>]
  /\ settleOrder = [c \in Calls |-> <<>>]
  /\ returned = [c \in Calls |-> <<>>]
  /\ exit = [c \in Calls |-> "none"]
  /\ overlap = [c \in Calls |-> "no"]
  /\ CacheInit
  /\ ExtIdle

\* EmptyHistory with the early return missing
EmptyHistoryNever(visited) == FALSE

\* if (visitedArticles.length === 0) return []
EmptyHistory(visited) == Len(visited) = 0

\* Finally without setLoading(false)
FinallyWithoutCleanup(c, value, how) ==
  /\ loading' = (IF pc[c] = "idle" THEN TRUE ELSE loading)
  /\ returned' = [returned EXCEPT ![c] = value]
  /\ exit' = [exit EXCEPT ![c] = how]
  /\ pc' = [pc EXCEPT ![c] = "done"]

\* The finally block, once the value the call settles with is fixed:
\* setLoading(false)
Finally(c, value, how) ==
  /\ loading' = FALSE
  /\ returned' = [returned EXCEPT ![c] = value]
  /\ exit' = [exit EXCEPT ![c] = how]
  /\ pc' = [pc EXCEPT ![c] = "done"]

\* Catch that rethrows: the promise rejects and error is not set
CatchRethrows(c) ==
  /\ error' = error
  /\ loading' = FALSE
  /\ returned' = [returned EXCEPT ![c] = <<>>]
  /\ exit' = [exit EXCEPT ![c] = "rejected"]
  /\ pc' = [pc EXCEPT ![c] = "done"]

\* The catch block: setError(...), return [], then the finally block
Catch(c) ==
  /\ error' = ErrorMessage
  /\ Finally(c, <<>>, "catch")

\* Begin without setError(null)
BeginKeepsError ==
  /\ loading' = TRUE
  /\ error' = error

\* setLoading(true); setError(null)
Begin ==
  /\ loading' = TRUE
  /\ error' = NoError

\* getRecommendations(lim) up to its first await: setLoading(true),
\* setError(null), the early return on an empty history, the sampler, and one
\* fetchQuery per sampled source.  Calls are numbered in invocation order.
Invoke(c, limits) ==
  /\ pc[c] = "idle"
  /\ \A d \in Calls : d < c => pc[d] # "idle"
  /\ \E lim \in limits :
       /\ limit' = [limit EXCEPT ![c] = lim]
       /\ IF EmptyHistory(visitedArticles)
          THEN /\ error' = NoError
               /\ Finally(c, <<>>, "early")
               /\ UNCHANGED <<sourceArticles, linkKinds, linkFetch, overlap>>
          ELSE \E draws \in SampleDraws(Len(visitedArticles),
                                        MaxSourceArticles(visitedArticles, lim)) :
                 LET sources == SampleSources(visitedArticles, draws)
                 IN \E useBacklinks \in [1..Len(sources) -> BOOLEAN] :
                      /\ Begin
                      /\ sourceArticles' = [sourceArticles EXCEPT ![c] = sources]
                      /\ linkKinds' = [linkKinds EXCEPT ![c] =
                           LinkKinds(sources, useBacklinks)]
                      /\ linkFetch' = [linkFetch EXCEPT ![c] =
                           [i \in 1..Len(LinkKinds(sources, useBacklinks)) |-> Pending]]
                      /\ pc' = [pc EXCEPT ![c] = "links"]
                      /\ overlap' = [d \in Calls |->
                           IF d = c
                           THEN IF \E e \in Calls : InFlight(e) THEN "atStart" ELSE "no"
                           ELSE IF InFlight(d) /\ overlap[d] = "no" THEN "during"
                           ELSE overlap[d]]
                      /\ UNCHANGED <<returned, exit>>
  /\ UNCHANGED <<visitedArticles, allCandidates, candidateTitles, summaryFetch,
                 settleOrder>>
  /\ UNCHANGED cacheVars
  /\ UNCHANGED extVars

\* LinkSettle that samples the sources again when a link fetch fails
LinkSettleResamples(c, outcomes) ==
  /\ pc[c] = "links"
  /\ \E i \in 1..Len(linkFetch[c]) :
       /\ linkFetch[c][i].st = "pending"
       /\ \E o \in outcomes :
            /\ linkFetch' = [linkFetch EXCEPT ![c][i] = o]
            /\ sourceArticles' =
                 IF o.st = "fail"
                 THEN [sourceArticles EXCEPT ![c][i] = visitedArticles[1]]
                 ELSE sourceArticles
  /\ UNCHANGED <<visitedArticles, loading, error, pc, limit, linkKinds,
                 allCandidates, candidateTitles, summaryFetch, settleOrder, returned,
                 exit, overlap>>
  /\ UNCHANGED cacheVars
  /\ UNCHANGED extVars

\* One link fetchQuery settles.
LinkSettle(c, outcomes) ==
  /\ pc[c] = "links"
  /\ \E i \in 1..Len(linkFetch[c]) :
       /\ linkFetch[c][i].st = "pending"
       /\ \E o \in outcomes :
            linkFetch' = [linkFetch EXCEPT ![c][i] = o]
  /\ UNCHANGED <<visitedArticles, loading, error, pc, limit, sourceArticles, linkKinds,
                 allCandidates, candidateTitles, summaryFetch, settleOrder, returned,
                 exit, overlap>>
  /\ UNCHANGED cacheVars
  /\ UNCHANGED extVars

\* The continuation of await Promise.all(linkPromises): merge, shuffle,
\* slice, and one summary fetchQuery per selected candidate.
Merge(c) ==
  /\ pc[c] = "links"
  /\ Settled(linkFetch[c])
  /\ LET linkResults == LinkResults(linkFetch[c])
     IN IF MergeThrows(linkResults)
        THEN /\ Catch(c)
             /\ UNCHANGED <<allCandidates, candidateTitles, summaryFetch>>
        ELSE LET merged == AllCandidates(linkResults, visitedArticles)
             IN \E draws \in ShuffleDraws(Len(merged)) :
                  LET cands == SelectCandidates(Shuffle(merged, draws), limit[c])
                  IN /\ allCandidates' = [allCandidates EXCEPT ![c] = merged]
                     /\ candidateTitles' = [candidateTitles EXCEPT ![c] = cands]
                     /\ summaryFetch' = [summaryFetch EXCEPT ![c] =
                          [i \in 1..SummariesStarted(cands, limit[c]) |-> Pending]]
                     /\ pc' = [pc EXCEPT ![c] = "summaries"]
                     /\ UNCHANGED <<loading, error, returned, exit>>
  /\ UNCHANGED <<visitedArticles, limit, sourceArticles, linkKinds, linkFetch,
                 settleOrder, overlap>>
  /\ UNCHANGED cacheVars
  /\ UNCHANGED extVars

\* One summary fetchQuery settles.
SummarySettle(c, outcomes) ==
  /\ pc[c] = "summaries"
  /\ \E i \in 1..Len(summaryFetch[c]) :
       /\ summaryFetch[c][i].st = "pending"
       /\ \E o \in outcomes :
            summaryFetch' = [summaryFetch EXCEPT ![c][i] = o]
       /\ settleOrder' = [settleOrder EXCEPT ![c] = Append(@, i)]
  /\ UNCHANGED <<visitedArticles, loading, error, pc, limit, sourceArticles, linkKinds,
                 linkFetch, allCandidates, candidateTitles, returned, exit, overlap>>
  /\ UNCHANGED cacheVars
  /\ UNCHANGED extVars

\* Assemble that also clears error on success
AssembleClearsError(c) ==
  /\ pc[c] = "summaries"
  /\ Settled(summaryFetch[c])
  /\ error' = NoError
  /\ loading' = FALSE
  /\ returned' = [returned EXCEPT ![c] =
       Recommendations(candidateTitles[c], summaryFetch[c], limit[c])]
  /\ exit' = [exit EXCEPT ![c] = "return"]
  /\ pc' = [pc EXCEPT ![c] = "done"]
  /\ UNCHANGED <<visitedArticles, limit, sourceArticles, linkKinds, linkFetch,
                 allCandidates, candidateTitles, summaryFetch, settleOrder, overlap>>
  /\ UNCHANGED cacheVars
  /\ UNCHANGED extVars

\* Assemble that collects the results in the order the fetches settled
AssembleByCompletion(c) ==
  /\ pc[c] = "summaries"
  /\ Settled(summaryFetch[c])
  /\ LET order == settleOrder[c]
     IN Finally(c, Recommendations([k \in 1..Len(order) |-> candidateTitles[c][order[k]]],
                                   [k \in 1..Len(order) |-> summaryFetch[c][order[k]]],
                                   limit[c]), "return")
  /\ UNCHANGED <<visitedArticles, error, limit, sourceArticles, linkKinds, linkFetch,
                 allCandidates, candidateTitles, summaryFetch, settleOrder, overlap>>
  /\ UNCHANGED cacheVars
  /\ UNCHANGED extVars

\* The continuation of await Promise.all(summaryPromises): collect, return.
Assemble(c) ==
  /\ pc[c] = "summaries"
  /\ Settled(summaryFetch[c])
  /\ Finally(c, Recommendations(candidateTitles[c], summaryFetch[c], limit[c]), "return")
  /\ UNCHANGED <<visitedArticles, error, limit, sourceArticles, linkKinds, linkFetch,
                 allCandidates, candidateTitles, summaryFetch, settleOrder, overlap>>
  /\ UNCHANGED cacheVars
  /\ UNCHANGED extVars

\* ------------------------------------------------------------- fetchQuery
\* Request in which a call for a key that is being fetched starts a fetch of
\* its own
RequestNoCoalesce(r, k) ==
  /\ requests[r].st = "idle"
  /\ \A q \in Requests : q < r => requests[q].st # "idle"
  /\ IF Fresh(k)
     THEN /\ requests' = [requests EXCEPT ![r] =
               [st |-> "value", key |-> k, value |-> cache[k].version, via |-> "cache"]]
          /\ UNCHANGED <<fetching, running, fetchCalls>>
     ELSE /\ requests' = [requests EXCEPT ![r] =
               [st |-> "waiting", key |-> k, value |-> 0, via |-> "started"]]
          /\ fetching' = [fetching EXCEPT ![k] = [active |-> TRUE, failureCount |-> 0]]
          /\ running' = [running EXCEPT ![k] = @ + 1]
          /\ fetchCalls' = [fetchCalls EXCEPT ![k] = @ + 1]
  /\ UNCHANGED <<now, cache, lastOutcome>>
  /\ UNCHANGED hookVars
  /\ UNCHANGED extVars

\* queryClient.fetchQuery({queryKey: k, queryFn, staleTime, gcTime}): a fresh
\* entry is returned at once; otherwise the call waits for the fetch of its
\* key, which it starts (invoking queryFn) unless one is in flight.  The calls
\* are numbered in the order they are made.
Request(r, k) ==
  /\ requests[r].st = "idle"
  /\ \A q \in Requests : q < r => requests[q].st # "idle"
  /\ IF Fresh(k)
     THEN /\ requests' = [requests EXCEPT ![r] =
               [st |-> "value", key |-> k, value |-> cache[k].version, via |-> "cache"]]
          /\ UNCHANGED <<fetching, running, fetchCalls>>
     ELSE IF fetching[k].active
     THEN /\ requests' = [requests EXCEPT ![r] =
               [st |-> "waiting", key |-> k, value |-> 0, via |-> "joined"]]
          /\ UNCHANGED <<fetching, running, fetchCalls>>
     ELSE /\ requests' = [requests EXCEPT ![r] =
               [st |-> "waiting", key |-> k, value |-> 0, via |-> "started"]]
          /\ fetching' = [fetching EXCEPT ![k] = [active |-> TRUE, failureCount |-> 0]]
          /\ running' = [running EXCEPT ![k] = @ + 1]
          /\ fetchCalls' = [fetchCalls EXCEPT ![k] = 1]
  /\ UNCHANGED <<now, cache, lastOutcome>>
  /\ UNCHANGED hookVars
  /\ UNCHANGED extVars

\* The promises of the calls waiting on key k settle
Deliver(k, st, value) ==
  requests' = [r \in Requests |->
    IF requests[r].st = "waiting" /\ requests[r].key = k
    THEN [requests[r] EXCEPT !.st = st, !.value = value]
    ELSE requests[r]]

\* queryFn resolves: the value is stored with the time, and every waiter gets it
ProducerSucceeds(k) ==
  /\ fetching[k].active
  /\ cache' = [cache EXCEPT ![k] =
       [has |-> TRUE, version |-> cache[k].version + 1, updatedAt |-> now]]
  /\ Deliver(k, "value", cache[k].version + 1)
  /\ fetching' = [fetching EXCEPT ![k].active = FALSE]
  /\ running' = [running EXCEPT ![k] = @ - 1]
  /\ lastOutcome' = [lastOutcome EXCEPT ![k] = "success"]
  /\ UNCHANGED <<now, fetchCalls>>
  /\ UNCHANGED hookVars
  /\ UNCHANGED extVars

\* ProducerFails that stores the failure as the entry of the key
ProducerFailsPoisons(k) ==
  /\ fetching[k].active
  /\ IF fetching[k].failureCount < RETRY
     THEN /\ fetching' = [fetching EXCEPT ![k].failureCount = @ + 1]
          /\ fetchCalls' = [fetchCalls EXCEPT ![k] = @ + 1]
          /\ UNCHANGED <<cache, running, lastOutcome, requests>>
     ELSE /\ fetching' = [fetching EXCEPT ![k] =
               [active |-> FALSE, failureCount |-> @.failureCount + 1]]
          /\ cache' = [cache EXCEPT ![k] =
               [has |-> TRUE, version |-> cache[k].version, updatedAt |-> now]]
          /\ Deliver(k, "error", 0)
          /\ running' = [running EXCEPT ![k] = @ - 1]
          /\ lastOutcome' = [lastOutcome EXCEPT ![k] = "failure"]
          /\ UNCHANGED fetchCalls
  /\ UNCHANGED now
  /\ UNCHANGED hookVars
  /\ UNCHANGED extVars

\* queryFn rejects: the fetch invokes it again while it has failed at most
\* RETRY times; after that every waiter gets the failure and the entry stays
\* as it was.
ProducerFails(k) ==
  /\ fetching[k].active
  /\ IF fetching[k].failureCount < RETRY
     THEN /\ fetching' = [fetching EXCEPT ![k].failureCount = @ + 1]
          /\ fetchCalls' = [fetchCalls EXCEPT ![k] = @ + 1]
          /\ UNCHANGED <<cache, running, lastOutcome, requests>>
     ELSE /\ fetching' = [fetching EXCEPT ![k] =
               [active |-> FALSE, failureCount |-> @.failureCount + 1]]
          /\ Deliver(k, "error", 0)
          /\ running' = [running EXCEPT ![k] = @ - 1]
          /\ lastOutcome' = [lastOutcome EXCEPT ![k] = "failure"]
          /\ UNCHANGED <<cache, fetchCalls>>
  /\ UNCHANGED now
  /\ UNCHANGED hookVars
  /\ UNCHANGED extVars

\* Time passes
Tick ==
  /\ now < MaxTicks * ClockStep
  /\ now' = now + ClockStep
  /\ UNCHANGED <<cache, fetching, running, fetchCalls, lastOutcome, requests>>
  /\ UNCHANGED hookVars
  /\ UNCHANGED extVars

\* ------------------------------------------------------------- specifications
\* One invocation, every argument and every fetch outcome.
Init == InitWith(Histories(MaxVisited))

Next ==
  \/ Invoke(1, 0..MaxLimit)
  \/ LinkSettle(1, LinkOutcomes)
  \/ Merge(1)
  \/ SummarySettle(1, SummaryOutcomes)
  \/ Assemble(1)

Spec == Init /\ [][Next]_vars

\* Up to MaxCalls invocations that may overlap, on a history of at most one
\* article, with one outcome of each kind per fetch.
OverlapLinkOutcomes == {Failed, NullValue, [st |-> "ok", data |-> <<"X">>]}

OverlapSummaryOutcomes == {Failed, NullValue, [st |-> "ok", data |-> <<"X">>]}

InitOverlap == InitWith(Histories(1))

NextOverlap ==
  \E c \in Calls :
    \/ Invoke(c, OverlapLimits)
    \/ LinkSettle(c, OverlapLinkOutcomes)
    \/ Merge(c)
    \/ SummarySettle(c, OverlapSummaryOutcomes)
    \/ Assemble(c)

SpecOverlap == InitOverlap /\ [][NextOverlap]_vars

\* What the network and the event loop do for call c once it is invoked
ProgressOverlap(c) ==
  \/ LinkSettle(c, OverlapLinkOutcomes)
  \/ Merge(c)
  \/ SummarySettle(c, OverlapSummaryOutcomes)
  \/ Assemble(c)

\* Every fetch settles, and the event loop runs every continuation that is
\* ready; nothing obliges the caller to invoke again.
FairOverlap == SpecOverlap /\ \A c \in Calls : WF_vars(ProgressOverlap(c))

\* The fetchQuery calls of any getRecommendations calls, in any order and at
\* any time, against the query cache.
InitCache == InitWith(Histories(0))

NextCache ==
  \/ \E r \in Requests, k \in CacheKeys : Request(r, k)
  \/ \E k \in CacheKeys : ProducerSucceeds(k)
  \/ \E k \in CacheKeys : ProducerFails(k)
  \/ Tick

SpecCache == InitCache /\ [][NextCache]_vars

\* The shuffle loop on its own, on every list of up to MaxShuffle distinct
\* titles and with every sequence of values Math.random() can give.
InitShuffle ==
  /\ InitWith(Histories(0))
  /\ shufflePc = "idle"

\* allCandidates is a list of distinct titles; the loop of lines 163-166 runs
ShuffleRun ==
  /\ shufflePc = "idle"
  /\ \E n \in 0..MaxShuffle :
       \E draws \in ShuffleDraws(n) :
         /\ shuffleInput' = SubSeq(ShufflePool, 1, n)
         /\ shuffleRandom' = draws
         /\ shuffleOutput' = Shuffle(SubSeq(ShufflePool, 1, n), draws)
  /\ shufflePc' = "done"
  /\ UNCHANGED notShuffle

NextShuffle == ShuffleRun

SpecShuffle == InitShuffle /\ [][NextShuffle]_vars

\* ------------------------------------------------------------- axiosInstance actions
\* The request interceptor up to its await (lines 125-136): when the last
\* request left less than MIN_INTERVAL_MS ago a timer for the rest is set;
\* otherwise lastRequestTime becomes now and the request leaves.
RequestInterceptor(r) ==
  IF timeSinceLastRequest < MIN_INTERVAL_MS
  THEN /\ axReq' = [axReq EXCEPT ![r].pc = "limited",
                                 ![r].waitTime = MIN_INTERVAL_MS - timeSinceLastRequest]
       /\ UNCHANGED timeSinceLastRequest
  ELSE /\ axReq' = [axReq EXCEPT ![r].pc = "sent", ![r].waitTime = 0]
       /\ timeSinceLastRequest' = 0

\* axiosInstance.get(...) by a caller
AxRequest(r) ==
  /\ axReq[r].pc = "idle"
  /\ RequestInterceptor(r)
  /\ UNCHANGED notAxios

\* The timer of line 131 fires: lastRequestTime = Date.now() (line 136), and
\* the request leaves the interceptor
AxWake(r) ==
  /\ axReq[r].pc = "limited"
  /\ axReq[r].waitTime = 0
  /\ axReq' = [axReq EXCEPT ![r].pc = "sent"]
  /\ timeSinceLastRequest' = 0
  /\ UNCHANGED notAxios

\* What of a timer of ms milliseconds the rate limiter can tell apart
Observable(ms) == IF ms < MIN_INTERVAL_MS THEN ms ELSE MIN_INTERVAL_MS

\* The response interceptor up to its await (lines 143-163)
ResponseInterceptor(r, a) ==
  IF a.status = 200
  THEN [axReq[r] EXCEPT !.pc = "fulfilled", !.answer = a]
  ELSE IF a.axios /\ a.status = 429
  THEN [axReq[r] EXCEPT !.pc = "backoff", !.answer = a,
                        !.delay = RetryAfterMs(a.retryAfter),
                        !.waitTime = Observable(TimeoutDelay(RetryAfterMs(a.retryAfter)))]
  ELSE IF a.axios /\ a.status >= 500
  THEN [axReq[r] EXCEPT !.pc = "backoff", !.answer = a, !.delay = 2000,
                        !.waitTime = Observable(2000)]
  ELSE [axReq[r] EXCEPT !.pc = "rejected", !.answer = a]

\* The answer to a request that was sent arrives
AxAnswer(r, answers) ==
  /\ axReq[r].pc = "sent"
  /\ \E a \in answers : axReq' = [axReq EXCEPT ![r] = ResponseInterceptor(r, a)]
  /\ UNCHANGED timeSinceLastRequest
  /\ UNCHANGED notAxios

\* The timer of line 151 or 158 fires: axiosInstance.request(error.config),
\* which runs the request interceptor again
AxResend(r) ==
  /\ axReq[r].pc = "backoff"
  /\ axReq[r].waitTime = 0
  /\ \E sent \in {[axReq EXCEPT ![r].resent = TRUE]} :
       IF timeSinceLastRequest < MIN_INTERVAL_MS
       THEN /\ axReq' = [sent EXCEPT ![r].pc = "limited",
                                     ![r].waitTime = MIN_INTERVAL_MS - timeSinceLastRequest]
            /\ UNCHANGED timeSinceLastRequest
       ELSE /\ axReq' = [sent EXCEPT ![r].pc = "sent"]
            /\ timeSinceLastRequest' = 0
  /\ UNCHANGED notAxios

\* One millisecond passes: every running timer has one millisecond less to go
AxTick ==
  /\ timeSinceLastRequest' = Observable(timeSinceLastRequest + 1)
  /\ axReq' = [r \in AxRequests |->
       IF axReq[r].waitTime > 0 THEN [axReq[r] EXCEPT !.waitTime = @ - 1] ELSE axReq[r]]
  /\ UNCHANGED notAxios

\* The rate limiter alone: MaxAxRequests callers, a server that answers 200
InitRateLimit == InitWith(Histories(0))

NextRateLimit ==
  \/ \E r \in AxRequests : AxRequest(r)
  \/ \E r \in AxRequests : AxWake(r)
  \/ \E r \in AxRequests : AxAnswer(r, OkAnswers)
  \/ AxTick

SpecRateLimit == InitRateLimit /\ [][NextRateLimit]_vars

\* The re-sends alone: one caller, a server that may answer anything
InitAxios == InitWith(Histories(0))

NextAxios ==
  \/ AxRequest(1)
  \/ AxWake(1)
  \/ AxAnswer(1, AxAnswers)
  \/ AxResend(1)
  \/ AxTick

SpecAxios == InitAxios /\ [][NextAxios]_vars

\* Timers fire, answers arrive and time passes
FairAxios ==
  /\ SpecAxios
  /\ WF_vars(AxWake(1))
  /\ WF_vars(AxAnswer(1, AxAnswers))
  /\ WF_vars(AxResend(1))
  /\ WF_vars(AxTick)

\* ------------------------------------------------------------- fetchFeaturedContent actions
\* The axiosInstance request that carries the feed of today (1) and of the
\* previous day (2)
FeatRequest(stage) == IF stage = "today" THEN 1 ELSE 2

\* fetchFeaturedContent(): new Date(), and tryFetchForDate(today) up to its
\* await (lines 34-35, 10-19)
FeatStart(today) ==
  /\ featPc = "idle"
  /\ featPc' = "today"
  /\ featToday' = today
  /\ featUrls' = <<today>>
  /\ RequestInterceptor(FeatRequest("today"))
  /\ UNCHANGED featOut
  /\ UNCHANGED notFeatured

\* The catch of tryFetchForDate (lines 24-29): TRUE when the error is
\* swallowed and null is returned
Swallowed(e) == e.status = 504 \/ e.code = "ECONNABORTED"

\* tryFetchForDate settles with data: what was returned (lines 23, 26)
FeatData(r) == IF axReq[r].pc = "fulfilled" THEN axReq[r].answer.data ELSE Null

\* The awaited tryFetchForDate settles (lines 35-55)
FeatSettle ==
  /\ featPc \in {"today", "yesterday"}
  /\ LET r == FeatRequest(featPc) IN
       /\ axReq[r].pc \in {"fulfilled", "rejected"}
       /\ IF axReq[r].pc = "rejected" /\ ~Swallowed(axReq[r].answer)
          THEN /\ featPc' = "thrown"
               /\ featOut' = [featOut EXCEPT !.error = axReq[r].answer]
               /\ UNCHANGED <<featUrls, axiosVars>>
          ELSE IF FeatData(r) # Null
          THEN /\ featPc' = "returned"
               /\ featOut' = [featOut EXCEPT !.data = FeatData(r)]
               /\ UNCHANGED <<featUrls, axiosVars>>
          ELSE IF featPc = "today"
          THEN /\ featPc' = "yesterday"
               /\ featUrls' = Append(featUrls, featToday - 1)
               /\ RequestInterceptor(FeatRequest("yesterday"))
               /\ UNCHANGED featOut
          ELSE /\ featPc' = "thrown"
               /\ featOut' = [featOut EXCEPT !.message = NotAvailable]
               /\ UNCHANGED <<featUrls, axiosVars>>
  /\ UNCHANGED featToday
  /\ UNCHANGED notFeatured

FeatRequests == {FeatRequest("today"), FeatRequest("yesterday")}

InitFeatured == InitWith(Histories(0))

NextFeatured ==
  \/ \E today \in FeatDays : FeatStart(today)
  \/ \E r \in FeatRequests : AxWake(r)
  \/ \E r \in FeatRequests : AxAnswer(r, AxAnswers)
  \/ \E r \in FeatRequests : AxResend(r)
  \/ AxTick
  \/ FeatSettle

SpecFeatured == InitFeatured /\ [][NextFeatured]_vars

\* ------------------------------------------------------------- fetchConcurrently actions
\* The loop body that pushes undefined for a failed request
FcCollectKeepsFailures(results, item, outcome) ==
  IF outcome = "fulfils" THEN Append(results, FcResult(item))
  ELSE Append(results, <<"undefined">>)

\* The try/catch of lines 175-181: a result is pushed, a failure is logged
FcCollect(results, item, outcome) ==
  IF outcome = "fulfils" THEN Append(results, FcResult(item)) ELSE results

\* fetchConcurrently(items, requestFn), up to its first await or its return
FcStart(items, outcomes) ==
  /\ fcPc = "idle"
  /\ fcItems' = items
  /\ fcOutcomes' = outcomes
  /\ fcPc' = IF items = <<>> THEN "returned" ELSE "awaiting"
  /\ fcIndex' = IF items = <<>> THEN 0 ELSE 1
  /\ fcInFlight' = IF items = <<>> THEN {} ELSE {1}
  /\ fcCalled' = IF items = <<>> THEN <<>> ELSE <<1>>
  /\ UNCHANGED fulfilledResults
  /\ UNCHANGED notConcurrently

\* The awaited requestFn call settles, and the loop goes on
FcSettle ==
  /\ fcPc = "awaiting"
  /\ fulfilledResults' =
       FcCollect(fulfilledResults, fcItems[fcIndex], fcOutcomes[fcIndex])
  /\ IF fcIndex + 1 <= Len(fcItems)
     THEN /\ fcPc' = "awaiting"
          /\ fcIndex' = fcIndex + 1
          /\ fcInFlight' = (fcInFlight \ {fcIndex}) \cup {fcIndex + 1}
          /\ fcCalled' = Append(fcCalled, fcIndex + 1)
     ELSE /\ fcPc' = "returned"
          /\ fcInFlight' = fcInFlight \ {fcIndex}
          /\ UNCHANGED <<fcIndex, fcCalled>>
  /\ UNCHANGED <<fcItems, fcOutcomes>>
  /\ UNCHANGED notConcurrently

InitConcurrently == InitWith(Histories(0))

NextConcurrently ==
  \/ \E items \in FcItemLists(MaxItems) :
       \E outcomes \in [1..Len(items) -> {"fulfils", "rejects"}] :
         FcStart(items, outcomes)
  \/ FcSettle

SpecConcurrently == InitConcurrently /\ [][NextConcurrently]_vars

\* ------------------------------------------------------------- ArticleSectionedRenderer actions
\* parseHtml (articleParsing.ts lines 28-39): TRUE when it throws
ParseThrows(html) == html = "" \/ html = Malformed

\* What String(err) gives
ParseError == "Error"

\* The effect of lines 102-163 with the sections and expandedId of a render:
\* preload is scheduled when the Introduction is expanded and there is more
\* than one section
PreloadEffect(secs, expanded) ==
  IF expanded = "intro" /\ Len(secs) > 1
  THEN [pc |-> "scheduled", closure |-> secs, expanded |-> expanded, at |-> 0]
  ELSE NoPreload

\* The component mounts with an article: the first render and its effects.
\* setSections(initialSections) and setExpandedId('intro') of the first
\* effect set what the state already is.
Mount(article) ==
  /\ ~mounted
  /\ mounted' = TRUE
  /\ articleHtml' = article
  /\ sections' = InitialSections(article)
  /\ expandedId' = "intro"
  /\ rendered' = InitialSections(article)
  /\ renderPending' = FALSE
  /\ preload' = PreloadEffect(InitialSections(article), "intro")
  /\ UNCHANGED notRenderer

\* The articleHtml prop changes: the render with the new prop and the effect
\* of lines 96-99
ArticleChange(article) ==
  /\ mounted
  /\ articleHtml' = article
  /\ sections' = InitialSections(article)
  /\ expandedId' = "intro"
  /\ renderPending' = TRUE
  /\ UNCHANGED <<mounted, rendered, preload>>
  /\ UNCHANGED notRenderer

\* The render after a state update, and the effect of lines 102-163: the
\* cleanup of the last run cancels its preload, and the effect runs again
Render ==
  /\ mounted
  /\ renderPending
  /\ rendered' = sections
  /\ renderPending' = FALSE
  /\ preload' = PreloadEffect(sections, expandedId)
  /\ UNCHANGED <<mounted, articleHtml, sections, expandedId>>
  /\ UNCHANGED notRenderer

\* setExpandedId updater that never collapses
ToggleKeepsOpen(cur, id) == id

\* The updater of line 167
Toggle(cur, id) == IF cur = id THEN "null" ELSE id

\* The html of the section id among secs, '' when there is none (line 174)
HtmlOf(secs, id) ==
  IF \E i \in 1..Len(secs) : secs[i].id = id
  THEN secs[CHOOSE i \in 1..Len(secs) : secs[i].id = id].html
  ELSE ""

\* The updaters of lines 170-177 one after the other
PressUpdate(p, html) ==
  IF ParseThrows(html)
  THEN [p EXCEPT !.loading = FALSE, !.error = ParseError]
  ELSE [p EXCEPT !.preloaded = TRUE, !.loading = FALSE, !.error = "null"]

\* onAccordionPress(id) for an accordion on screen (lines 165-182)
Press(id) ==
  /\ mounted
  /\ \E i \in 1..Len(rendered) : rendered[i].id = id
  /\ expandedId' = Toggle(expandedId, id)
  /\ sections' = [i \in 1..Len(sections) |->
       IF sections[i].id = id THEN PressUpdate(sections[i], HtmlOf(rendered, id))
       ELSE sections[i]]
  /\ renderPending' = TRUE
  /\ UNCHANGED <<mounted, articleHtml, rendered, preload>>
  /\ UNCHANGED notRenderer

\* The loop of lines 107-146 from position from on, up to its next await:
\* the position of the first section that is neither the expanded one nor
\* preloaded, 0 when the loop ends
NextToPreload(run, from) ==
  LET todo == {i \in (from + 1)..Len(run.closure) :
                 run.closure[i].id # run.expanded /\ ~run.closure[i].preloaded}
  IN IF todo = {} THEN 0 ELSE CHOOSE i \in todo : \A j \in todo : i <= j

PreloadAdvance(run, from) ==
  IF NextToPreload(run, from) = 0 THEN [run EXCEPT !.pc = "done", !.at = 0]
  ELSE [run EXCEPT !.pc = "awaiting", !.at = NextToPreload(run, from)]

\* preload() is called after the interactions (lines 151-153)
PreloadStart ==
  /\ preload.pc = "scheduled"
  /\ preload' = PreloadAdvance(preload, 0)
  /\ UNCHANGED <<mounted, articleHtml, sections, expandedId, rendered, renderPending>>
  /\ UNCHANGED notRenderer

\* The updaters of lines 126-144 one after the other
PreloadUpdate(p, html) ==
  IF ParseThrows(html)
  THEN [p EXCEPT !.preloaded = FALSE, !.loading = FALSE, !.error = ParseError]
  ELSE [p EXCEPT !.preloaded = TRUE, !.loading = FALSE, !.error = "null"]

\* The await of lines 118-121 is over and the run is not cancelled: the
\* section is parsed and marked, and the loop goes on to its next await
PreloadResume ==
  /\ preload.pc = "awaiting"
  /\ LET sec == preload.closure[preload.at] IN
       sections' = [i \in 1..Len(sections) |->
         IF sections[i].id = sec.id THEN PreloadUpdate(sections[i], sec.html)
         ELSE sections[i]]
  /\ renderPending' = TRUE
  /\ preload' = PreloadAdvance(preload, preload.at)
  /\ UNCHANGED <<mounted, articleHtml, expandedId, rendered>>
  /\ UNCHANGED notRenderer

InitRenderer == InitWith(Histories(0))

\* The accordions: articles whose parts all parse, replaced and pressed at will
NextRenderer ==
  \/ \E article \in Articles(MaxSections, {}) : Mount(article)
  \/ \E article \in Articles(MaxSections, {}) : ArticleChange(article)
  \/ Render
  \/ \E id \in AccordionIds : Press(id)
  \/ PreloadStart
  \/ PreloadResume

SpecRenderer == InitRenderer /\ [][NextRenderer]_vars

\* The Introduction stays expanded: the article is not replaced and no
\* accordion is pressed
NextPreload ==
  \/ \E article \in Articles(MaxSections, AccordionIds) : Mount(article)
  \/ Render
  \/ PreloadStart
  \/ PreloadResume

SpecPreload == InitRenderer /\ [][NextPreload]_vars

\* Renders happen, and the interactions and timers preload waits for end
FairPreload ==
  /\ SpecPreload
  /\ WF_vars(Render)
  /\ WF_vars(PreloadStart)
  /\ WF_vars(PreloadResume)

\* ------------------------------------------------------------- claims
\* The unvisited titles that occur in the link lists a call fetched
UnvisitedTitles(c) ==
  {t \in UNION {Range(linkFetch[c][i].data) : i \in 1..Len(linkFetch[c])} :
     t \notin Range(visitedArticles)}

\* candidateCount: the number of merged, deduplicated, unvisited candidates
CandidateCount(c) == Cardinality(UnvisitedTitles(c))

\* The summary resolutions before slot i that resolved to null
NullsBefore(c, i) == Cardinality({j \in 1..(i - 1) : summaryFetch[c][j].st = "null"})

\* A step in which call c settles / is invoked
Completes(c) == pc[c] # "done" /\ pc'[c] = "done"
Invokes(c) == pc[c] = "idle" /\ pc'[c] # "idle"

\* C1 (as claimed): on a non-empty history the returned list has at most
\* limit items, no two with the same title, none with a visited title.
C1_Original ==
  \A c \in Calls :
    (pc[c] = "done" /\ Len(visitedArticles) > 0) =>
      /\ Len(returned[c]) <= limit[c]
      /\ \A i, j \in 1..Len(returned[c]) :
           i # j => returned[c][i].title # returned[c][j].title
      /\ \A i \in 1..Len(returned[c]) :
           returned[c][i].title \notin Range(visitedArticles)

C3_Original ==
  \A c \in Calls :
    (pc[c] = "summaries" \/ exit[c] = "return") =>
      Len(summaryFetch[c]) = Min(CandidateCount(c), limit[c] + SLACK)

\* C4: a failed summary fetch for candidate T leaves the stub
\* {title: T, displaytitle: T} in T's place among the returned items, and
\* every candidate whose summary resolved to a record keeps its own item.
C4_StubOnFailure ==
  \A c \in Calls :
    exit[c] = "return" =>
      \A i \in 1..Len(summaryFetch[c]) :
        LET k == i - NullsBefore(c, i)
        IN /\ summaryFetch[c][i].st = "fail" =>
                /\ k <= Len(returned[c])
                /\ returned[c][k] = [title |-> candidateTitles[c][i],
                                     displaytitle |-> candidateTitles[c][i],
                                     summary |-> FALSE]
           /\ summaryFetch[c][i].st = "ok" =>
                /\ k <= Len(returned[c])
                /\ returned[c][k].title = summaryFetch[c][i].data[1]
                /\ returned[c][k].summary

C4_Witness ==
  \E c \in Calls :
    /\ exit[c] = "return"
    /\ Len(summaryFetch[c]) = 2
    /\ summaryFetch[c][1].st = "fail"
    /\ summaryFetch[c][2].st = "ok"
    /\ Len(returned[c]) = 2
    /\ returned[c][1].title = candidateTitles[c][1]

\* C5: a call never rejects; when a link fetch resolved to a value that is
\* no list, the call resolves to the empty list and error is the message.
C5_NeverRejects ==
  \A c \in Calls :
    pc[c] = "done" =>
      /\ exit[c] \in {"early", "return", "catch"}
      /\ (\E i \in 1..Len(linkFetch[c]) : linkFetch[c][i].st = "null") =>
           /\ exit[c] = "catch"
           /\ returned[c] = <<>>
           /\ error = ErrorMessage
           /\ loading = FALSE

C5_Witness ==
  \E c \in Calls :
    /\ pc[c] = "done"
    /\ exit[c] = "catch"
    /\ Len(linkFetch[c]) = 2
    /\ linkFetch[c][1].st = "ok"
    /\ linkFetch[c][2].st = "null"
    /\ error = ErrorMessage

\* C6: a failed link fetch counts as an empty list for its article only: the
\* sibling fetches have settled, their unvisited titles are the candidates,
\* the call does not fail and error stays null.
C6_LinkFailureIsEmpty ==
  \A c \in Calls :
    ( /\ pc[c] \in {"summaries", "done"}
      /\ \E i \in 1..Len(linkFetch[c]) : linkFetch[c][i].st = "fail"
      /\ \A i \in 1..Len(linkFetch[c]) : linkFetch[c][i].st # "null" ) =>
      /\ Settled(linkFetch[c])
      /\ exit[c] \in {"none", "return"}
      /\ error = NoError
      /\ Range(candidateTitles[c]) \subseteq UnvisitedTitles(c)
      /\ Len(candidateTitles[c]) = Min(limit[c], CandidateCount(c))
      /\ CandidateCount(c) <= limit[c] => Range(candidateTitles[c]) = UnvisitedTitles(c)

C6_Witness ==
  \E c \in Calls :
    /\ exit[c] = "return"
    /\ Len(linkFetch[c]) = 2
    /\ linkFetch[c][1].st = "fail"
    /\ linkFetch[c][2].st = "ok"
    /\ Range(candidateTitles[c]) = {"X", "Y"}
    /\ error = NoError

\* The step in which the last of a group of overlapping calls settles
LastOfOverlap(c) ==
  /\ Completes(c)
  /\ overlap[c] # "no"
  /\ \A d \in Calls \ {c} : ~InFlight(d)

\* No step of one call changes the position or the result of another
Independent ==
  \A c, d \in Calls :
    (c # d /\ pc'[c] # pc[c]) =>
      /\ pc'[d] = pc[d]
      /\ returned'[d] = returned[d]
      /\ exit'[d] = exit[d]
      /\ linkFetch'[d] = linkFetch[d]
      /\ summaryFetch'[d] = summaryFetch[d]

\* C7 (as claimed): once overlapping calls have all settled, loading is false
\* and error is decided by the call that settled last: null if it succeeded,
\* the message if it failed.
C7_Original ==
  [][ \A c \in Calls :
        LastOfOverlap(c) =>
          /\ loading' = FALSE
          /\ error' = (IF exit'[c] = "catch" THEN ErrorMessage ELSE NoError) ]_vars

\* C7 (amended): overlapping calls do not disturb each other's progress; once
\* they have all settled, loading is false and error is the message if the
\* call that settled last failed, and otherwise what the calls that settled
\* before it left: a success does not clear the error of a failed sibling.
C7_Amended ==
  [][ /\ Independent
      /\ \A c \in Calls :
           LastOfOverlap(c) =>
             /\ loading' = FALSE
             /\ error' = (IF exit'[c] = "catch" THEN ErrorMessage ELSE error) ]_vars

C7_Witness ==
  \E c, d \in Calls :
    /\ c # d
    /\ overlap[c] # "no" /\ overlap[d] # "no"
    /\ exit[c] = "catch"
    /\ exit[d] = "return"
    /\ Len(returned[d]) > 0
    /\ error = ErrorMessage
    /\ loading = FALSE

\* C8: every invocation in flight eventually settles, and the step in which
\* a call settles (early return, return or catch) sets loading to false.
C8_CleanupRuns ==
  /\ \A c \in Calls : InFlight(c) ~> (pc[c] = "done")
  /\ [][ \A c \in Calls : Completes(c) => loading' = FALSE ]_vars

C8_Witness ==
  \E c, d \in Calls :
    /\ exit[c] = "catch"
    /\ exit[d] = "return"
    /\ loading = FALSE

\* What C9 says of a step of call c, for the calls `scope` says it covers:
\* the invocation leaves loading true, error null and every link fetch just
\* issued; the completion leaves success (error null) or failure (error
\* set, empty list).
LifecycleStep(c, covered) ==
  /\ (Invokes(c) /\ pc'[c] = "links") =>
       /\ loading' = TRUE
       /\ error' = NoError
       /\ \A i \in 1..Len(linkFetch'[c]) : linkFetch'[c][i] = Pending
  /\ (Completes(c) /\ covered) =>
       /\ loading' = FALSE
       /\ \/ exit'[c] \in {"early", "return"} /\ error' = NoError
          \/ exit'[c] = "catch" /\ error' = ErrorMessage /\ returned'[c] = <<>>

\* C9 (as claimed): for a call invoked while no call was in flight (idle,
\* success or failure), the completion leaves success or failure.
C9_Original ==
  [][ \A c \in Calls : LifecycleStep(c, overlap[c] # "atStart") ]_vars

\* C9 (amended): the same, for a call that no other call overlapped; a call
\* during which another call was invoked and failed can return its list
\* with error set.
C9_Amended ==
  [][ \A c \in Calls : LifecycleStep(c, overlap[c] = "no") ]_vars

C9_Witness ==
  /\ exit[1] = "catch"
  /\ pc[2] = "done"
  /\ overlap[2] = "no"
  /\ exit[2] = "return"
  /\ Len(returned[2]) > 0
  /\ error = NoError
  /\ loading = FALSE

\* C10: on an empty history a call settles at once with the empty list: no
\* source is sampled, no link or summary fetch is issued, error is null and
\* loading is false.
C10_EmptyHistory ==
  Len(visitedArticles) = 0 =>
    \A c \in Calls :
      pc[c] # "idle" =>
        /\ pc[c] = "done"
        /\ exit[c] = "early"
        /\ returned[c] = <<>>
        /\ sourceArticles[c] = <<>>
        /\ linkFetch[c] = <<>>
        /\ summaryFetch[c] = <<>>
        /\ error = NoError
        /\ loading = FALSE

C10_Witness ==
  /\ Len(visitedArticles) = 0
  /\ pc[1] = "done"
  /\ returned[1] = <<>>

\* C11: when every link fetch of a call gave a list and no list holds an
\* unvisited title, the call issues no summary fetch and resolves to the empty
\* list through the normal return, with error null.
C11_NoDataIsNotFailure ==
  \A c \in Calls :
    ( /\ pc[c] \in {"summaries", "done"}
      /\ exit[c] # "early"
      /\ \A i \in 1..Len(linkFetch[c]) : linkFetch[c][i].st \in {"ok", "fail"}
      /\ UnvisitedTitles(c) = {} )
    => /\ summaryFetch[c] = <<>>
       /\ candidateTitles[c] = <<>>
       /\ error = NoError
       /\ pc[c] = "done" => (exit[c] = "return" /\ returned[c] = <<>>)

\* A call on a non-empty history whose only fetched titles were visited ones
\* has returned.
C11_Witness ==
  /\ pc[1] = "done"
  /\ exit[1] = "return"
  /\ \E i \in 1..Len(linkFetch[1]) :
       linkFetch[1][i].st = "ok" /\ Len(linkFetch[1][i].data) > 0
  /\ UnvisitedTitles(1) = {}
  /\ returned[1] = <<>>
  /\ error = NoError

\* C12: on a history of N >= 1 articles the sampler selects n sources with
\* n = min(N, ceil(limit/2)), stated without ceil: n <= N, n = N or 2n >= limit,
\* and n = 0 or 2(n-1) < limit; the sources are distinct articles of the history.
C12_SamplerDistinct ==
  \A c \in Calls :
    (pc[c] # "idle" /\ Len(visitedArticles) >= 1)
    => LET n == Len(sourceArticles[c])
           N == Len(visitedArticles)
       IN /\ n <= N
          /\ n = N \/ 2 * n >= limit[c]
          /\ n = 0 \/ 2 * (n - 1) < limit[c]
          /\ \A i \in 1..n : sourceArticles[c][i] \in Range(visitedArticles)
          /\ \A i, j \in 1..n : i # j => sourceArticles[c][i] # sourceArticles[c][j]

\* The sampler drew twice from a history of two: both articles were selected.
C12_Witness ==
  /\ pc[1] # "idle"
  /\ Len(visitedArticles) = 2
  /\ limit[1] = 3
  /\ Len(sourceArticles[1]) = 2
  /\ sourceArticles[1][1] # sourceArticles[1][2]

\* The fetchQuery calls waiting on key k
Waiters(k) == {r \in Requests : requests[r].st = "waiting" /\ requests[r].key = k}

\* C13 as stated: a fetch that concurrent requests share issues exactly one
\* underlying call.
C13_Original ==
  \A k \in CacheKeys :
    /\ running[k] <= 1
    /\ (\E r \in Waiters(k) : requests[r].via = "joined") => fetchCalls[k] = 1

\* C13 amended: per key at most one queryFn invocation is in flight; the
\* requests waiting on a key all wait on its one fetch, which exactly one of
\* them started; and the invocations of that fetch are one plus its failed
\* attempts, at most three, however many requests wait on it.
C13_Amended ==
  \A k \in CacheKeys :
    /\ running[k] <= 1
    /\ running[k] = 1 <=> fetching[k].active
    /\ Waiters(k) # {} <=> fetching[k].active
    /\ fetching[k].active =>
         /\ Cardinality({r \in Waiters(k) : requests[r].via = "started"}) = 1
         /\ \A r \in Waiters(k) : requests[r].via \in {"started", "joined"}
         /\ fetchCalls[k] = fetching[k].failureCount + 1
         /\ fetchCalls[k] <= 3

\* Two requests wait on one fetch of one key, and a third request of another
\* kind for the same title waits on a fetch of its own.
C13_Witness ==
  \E k \in CacheKeys :
    /\ Cardinality(Waiters(k)) = 2
    /\ running[k] = 1
    /\ fetchCalls[k] = 1
    /\ \E j \in CacheKeys : j # k /\ running[j] = 1

\* C14 as stated: no fetch invokes the producer more than once.
C14_Original == \A k \in CacheKeys : fetchCalls[k] \in {0, 1}

\* C14 amended: a fetch invokes the producer once and once more after each
\* failed attempt while fewer than three have failed: never more than three
\* times, exactly once when the first attempt succeeds, and exactly three
\* times when the fetch fails.
C14_Amended ==
  \A k \in CacheKeys :
    /\ fetchCalls[k] <= 3
    /\ lastOutcome[k] = "none" /\ ~fetching[k].active => fetchCalls[k] = 0
    /\ ~fetching[k].active /\ lastOutcome[k] = "success" =>
         fetchCalls[k] = fetching[k].failureCount + 1
    /\ ~fetching[k].active /\ lastOutcome[k] = "failure" =>
         /\ fetchCalls[k] = 3
         /\ fetching[k].failureCount = 3

\* A fetch has failed after three invocations, and a fetch has succeeded
\* after one.
C14_Witness ==
  /\ \E k \in CacheKeys :
       /\ ~fetching[k].active
       /\ lastOutcome[k] = "failure"
       /\ fetchCalls[k] = 3
       /\ \E r \in Requests : requests[r].st = "error" /\ requests[r].key = k
  /\ \E k \in CacheKeys :
       /\ ~fetching[k].active
       /\ lastOutcome[k] = "success"
       /\ fetchCalls[k] = 1

\* How many fetchQuery calls have been made
Made == Cardinality({r \in Requests : requests[r].st # "idle"})

\* C15: when a fetch ends in failure every request waiting on its key gets
\* the failure and the entry of the key stays as it was; and a request for a
\* key whose latest fetch failed is not answered from the cache: it waits on
\* a fetch that invokes the producer again.
C15_FailureNotCached ==
  [][\A k \in CacheKeys :
       /\ (fetching[k].active /\ ~fetching'[k].active /\ lastOutcome'[k] = "failure")
          => /\ \A r \in Waiters(k) : requests'[r].st = "error"
             /\ cache'[k] = cache[k]
       /\ \A r \in Requests :
            ( /\ requests[r].st = "idle"
              /\ requests'[r].st # "idle"
              /\ requests'[r].key = k
              /\ lastOutcome[k] = "failure"
              /\ ~fetching[k].active )
            => /\ requests'[r].st = "waiting"
               /\ fetching'[k].active
               /\ running'[k] = 1
               /\ fetchCalls'[k] = 1]_vars

\* Two requests coalesced on a key both got the failure, no value was stored,
\* and a third request for the key has the producer running again.
C15_Witness ==
  \E k \in CacheKeys :
    /\ Cardinality({r \in Requests : requests[r].st = "error" /\ requests[r].key = k}) = 2
    /\ ~cache[k].has
    /\ Cardinality(Waiters(k)) = 1
    /\ running[k] = 1

\* C16: a request for a key whose entry is younger than 10 minutes (backlinks,
\* forward links) or 5 minutes (summaries) is answered with the stored value
\* and no producer invocation; a request for a key whose entry is older than
\* that, with no fetch of the key in flight, invokes the producer.
C16_FreshFromCache ==
  [][\A r \in Requests :
       (requests[r].st = "idle" /\ requests'[r].st # "idle")
       => LET k == requests'[r].key
              age == now - cache[k].updatedAt
              staleTime == IF k[1] = "article" THEN 300000 ELSE 600000
          IN /\ (cache[k].has /\ age < staleTime)
                => /\ requests'[r].st = "value"
                   /\ requests'[r].value = cache[k].version
                   /\ running' = running
                   /\ fetchCalls' = fetchCalls
                   /\ cache' = cache
             /\ (cache[k].has /\ age > staleTime /\ ~fetching[k].active)
                => /\ requests'[r].st = "waiting"
                   /\ running'[k] = running[k] + 1
                   /\ fetchCalls'[k] = 1]_vars

\* A link entry was served from the cache at the age of 5 minutes, and the
\* entry of some key has been fetched a second time after it went stale.
C16_Witness ==
  /\ \E r \in Requests :
       /\ requests[r].via = "cache"
       /\ requests[r].key[1] # "article"
       /\ Made = r
       /\ now - cache[requests[r].key].updatedAt = 300000
  /\ \E k \in CacheKeys : cache[k].version = 2

\* C17: a call leaves its link stage, and its candidate list is written, only
\* in a step that finds every link fetch of the call settled; it leaves its
\* summary stage, and its result is written, only in a step that finds every
\* summary fetch of the call settled.
C17_JoinBarrier ==
  [][\A c \in Calls :
       /\ (pc[c] = "links" /\ (pc'[c] # "links" \/ candidateTitles'[c] # candidateTitles[c]))
          => \A i \in 1..Len(linkFetch[c]) : linkFetch[c][i].st # "pending"
       /\ (pc[c] = "summaries" /\ (pc'[c] # "summaries" \/ returned'[c] # returned[c]))
          => \A i \in 1..Len(summaryFetch[c]) : summaryFetch[c][i].st # "pending"
       /\ pc[c] # "links" => candidateTitles'[c] = candidateTitles[c]
       /\ pc[c] \notin {"idle", "links", "summaries"} => returned'[c] = returned[c]]_vars

\* A call with two link fetches and two summary fetches has returned two items.
C17_Witness ==
  /\ pc[1] = "done"
  /\ exit[1] = "return"
  /\ Len(linkFetch[1]) = 2
  /\ Len(summaryFetch[1]) = 2
  /\ Len(returned[1]) = 2
  /\ \A i \in 1..2 : linkFetch[1][i].st # "pending" /\ summaryFetch[1][i].st # "pending"

\* The summary slots of a call that produced an item
ProducedSlots(c) == {i \in 1..Len(summaryFetch[c]) : summaryFetch[c][i].st # "null"}

\* The p-th of them in candidate order
SlotOf(c, p) ==
  CHOOSE i \in ProducedSlots(c) : Cardinality({j \in ProducedSlots(c) : j <= i}) = p

\* The title of the item slot i produced
ProducedTitle(c, i) ==
  IF summaryFetch[c][i].st = "ok" THEN summaryFetch[c][i].data[1]
  ELSE candidateTitles[c][i]

\* C18: whatever the order in which the summary fetches settled, the p-th
\* returned item is the item of the p-th producing slot in candidate order,
\* and the result holds the first limit of them.
C18_CandidateOrder ==
  \A c \in Calls :
    exit[c] = "return" =>
      /\ Len(returned[c]) <= limit[c]
      /\ Len(returned[c]) <= Cardinality(ProducedSlots(c))
      /\ Len(returned[c]) = limit[c] \/ Len(returned[c]) = Cardinality(ProducedSlots(c))
      /\ \A p \in 1..Len(returned[c]) :
           returned[c][p].title = ProducedTitle(c, SlotOf(c, p))

\* The second candidate's summary settled before the first's, and the items
\* came back in candidate order.
C18_Witness ==
  /\ exit[1] = "return"
  /\ settleOrder[1] = <<2, 1>>
  /\ Len(returned[1]) = 2
  /\ returned[1][1].title # returned[1][2].title
  /\ returned[1][1].title = ProducedTitle(1, 1)
  /\ returned[1][2].title = ProducedTitle(1, 2)

\* C19: a call that sampled n sources has issued n link fetches, the i-th for
\* the i-th source and of one of the two kinds; no two of them have the same
\* query key; and for one title the keys of the two kinds differ.
C19_OneFetchPerSource ==
  \A c \in Calls :
    (pc[c] # "idle" /\ exit[c] # "early") =>
      LET n == Len(sourceArticles[c])
      IN /\ Len(linkFetch[c]) = n
         /\ Len(linkKinds[c]) = n
         /\ \A i \in 1..n :
              /\ linkKinds[c][i] \in {"article-backlinks", "article-links"}
              /\ QueryKey("article-backlinks", sourceArticles[c][i]) #
                   QueryKey("article-links", sourceArticles[c][i])
         /\ \A i, j \in 1..n :
              i # j => QueryKey(linkKinds[c][i], sourceArticles[c][i]) #
                       QueryKey(linkKinds[c][j], sourceArticles[c][j])

\* Two sources were sampled; the backlinks of the first and the forward links
\* of the second were fetched.
C19_Witness ==
  /\ pc[1] = "links"
  /\ Len(sourceArticles[1]) = 2
  /\ linkKinds[1] = <<"article-backlinks", "article-links">>
  /\ Len(linkFetch[1]) = 2

\* The first link list of call c that holds title t, and where t stands in it
FirstList(c, t) ==
  CHOOSE i \in 1..Len(linkFetch[c]) :
    /\ t \in Range(linkFetch[c][i].data)
    /\ \A h \in 1..(i - 1) : t \notin Range(linkFetch[c][h].data)

FirstPos(c, t) ==
  CHOOSE j \in 1..Len(linkFetch[c][FirstList(c, t)].data) :
    /\ linkFetch[c][FirstList(c, t)].data[j] = t
    /\ \A h \in 1..(j - 1) : linkFetch[c][FirstList(c, t)].data[h] # t

\* t is first seen before u in the flattened link lists
SeenBefore(c, t, u) ==
  \/ FirstList(c, t) < FirstList(c, u)
  \/ FirstList(c, t) = FirstList(c, u) /\ FirstPos(c, t) < FirstPos(c, u)

\* C20: the merged list of a call, as the merge step leaves it (the call is
\* in its summary stage and no summary has settled yet), holds no title twice
\* and no visited title, holds every unvisited title of the fetched link
\* lists, and lists the titles in the order they are first seen in the
\* flattened lists; the candidates are limit of them.
C20_MergeFirstSeen ==
  \A c \in Calls :
    (pc[c] = "summaries" /\ settleOrder[c] = <<>>) =>
      LET a == allCandidates[c]
      IN /\ \A p, q \in 1..Len(a) : p # q => a[p] # a[q]
         /\ Range(a) \cap Range(visitedArticles) = {}
         /\ Range(a) = UnvisitedTitles(c)
         /\ \A p, q \in 1..Len(a) : p < q => SeenBefore(c, a[p], a[q])
         /\ Range(candidateTitles[c]) \subseteq Range(a)
         /\ Len(candidateTitles[c]) = Min(limit[c], Len(a))

\* Two link lists that share a title and hold a visited one were merged: the
\* shared title is listed once, where it was first seen.
C20_Witness ==
  /\ pc[1] = "summaries"
  /\ visitedArticles = <<"A", "B">>
  /\ Len(linkFetch[1]) = 2
  /\ linkFetch[1][1].data = <<"A", "X">>
  /\ linkFetch[1][2].data = <<"Y", "X">>
  /\ allCandidates[1] = <<"X", "Y">>

RECURSIVE Factorial(_)
Factorial(n) == IF n <= 1 THEN 1 ELSE n * Factorial(n - 1)

\* The sequences of draws the loop can see on a list of n titles: one j in
\* [0, i] for each i from n-1 down to 1
DrawSequences(n) == {d \in [1..(n - 1) -> 0..(n - 1)] : \A i \in 1..(n - 1) : d[i] <= i}

\* C21: the loop drew one j in [0, i] for each i from n-1 down to 1; the
\* output is a permutation of the input; no other sequence of draws gives the
\* same output; and there are n! sequences of draws, so every permutation is
\* the output of exactly one of them.
C21_UnbiasedShuffle ==
  shufflePc = "done" =>
    LET n == Len(shuffleInput)
    IN /\ Len(shuffleRandom) = (IF n = 0 THEN 0 ELSE n - 1)
       /\ \A i \in 1..Len(shuffleRandom) : shuffleRandom[i] \in 0..i
       /\ Len(shuffleOutput) = n
       /\ Range(shuffleOutput) = Range(shuffleInput)
       /\ \A p, q \in 1..n : p # q => shuffleOutput[p] # shuffleOutput[q]
       /\ \A d \in DrawSequences(n) : Shuffle(shuffleInput, d) = shuffleOutput => d = shuffleRandom
       /\ Cardinality(DrawSequences(n)) = Factorial(n)

\* A list of three titles came out reversed.
C21_Witness ==
  /\ shufflePc = "done"
  /\ shuffleInput = <<"P", "Q", "R">>
  /\ shuffleOutput = <<"R", "Q", "P">>

\* C22: the sources of a call are written in the step that issues its link
\* fetches, one fetch per source, and in no other step: while the call waits
\* for a fetch, and after, its sources stay as they were sampled.
C22_SourcesFixed ==
  [][\A c \in Calls :
       /\ pc[c] # "idle" => sourceArticles'[c] = sourceArticles[c]
       /\ sourceArticles'[c] # sourceArticles[c] =>
            /\ pc[c] = "idle"
            /\ linkFetch[c] = <<>>
            /\ Len(linkFetch'[c]) = Len(sourceArticles'[c])
            /\ \A i \in 1..Len(linkFetch'[c]) : linkFetch'[c][i].st = "pending"]_vars

\* Two sources were sampled, one link fetch failed and one gave a list, and
\* the call went on to its summaries.
C22_Witness ==
  /\ pc[1] = "summaries"
  /\ Len(sourceArticles[1]) = 2
  /\ sourceArticles[1][1] # sourceArticles[1][2]
  /\ linkFetch[1][1].st = "fail"
  /\ linkFetch[1][2].st = "ok"

\* C30 as stated: while some call that has started has not settled, loading
\* is true.
C30_Original == (\E c \in Calls : pc[c] \in {"links", "summaries"}) => loading = TRUE

\* C23: any two requests leave the request interceptor at least
\* MIN_INTERVAL_MS apart: whenever a request leaves, the request before it
\* left MIN_INTERVAL_MS or more ago.
C23_Original ==
  [][\A r \in AxRequests :
       (axReq[r].pc # "sent" /\ axReq'[r].pc = "sent")
         => timeSinceLastRequest >= MIN_INTERVAL_MS]_vars


\* The wait the response interceptor is to arm for an answer, in ms: the
\* retry-after seconds of a 429, one second without the header, and two
\* seconds for a 5xx
C24_Wait(a) ==
  IF a.status = 429
  THEN CASE a.retryAfter = "" -> 1000
         [] a.retryAfter = "0" -> 0
         [] a.retryAfter = "2" -> 2000
  ELSE 2000

\* The failures the response interceptor answers with a re-send
C24_Retried(a) == a.axios /\ (a.status = 429 \/ a.status >= 500)

C25_Original == (axReq[1].pc # "idle") ~> (axReq[1].pc \in {"fulfilled", "rejected"})


\* C26: fetchFeaturedContent requests today's feed first; when that request
\* fails or yields no data it requests the previous day's feed and returns
\* it; it makes at most two requests, none for the previous day when today
\* gave data, and throws when neither day gave data.
C26_Original ==
  /\ featPc # "idle" => Len(featUrls) \in 1..2 /\ featUrls[1] = featToday
  /\ Len(featUrls) = 2 => featUrls[2] = featToday - 1
  /\ featPc \in {"returned", "thrown"} =>
       LET todayData == FeatData(1)
           yesterdayData == IF Len(featUrls) = 2 THEN FeatData(2) ELSE Null
       IN /\ todayData # Null =>
               /\ featUrls = <<featToday>>
               /\ featPc = "returned" /\ featOut.data = todayData
          /\ todayData = Null =>
               /\ Len(featUrls) = 2
               /\ yesterdayData # Null =>
                    featPc = "returned" /\ featOut.data = yesterdayData
               /\ yesterdayData = Null => featPc = "thrown"


\* The results of the items that fulfil, in input order
RECURSIVE C27_Fulfilled(_, _)
C27_Fulfilled(items, outcomes) ==
  IF items = <<>> THEN <<>>
  ELSE LET rest == C27_Fulfilled(Tail(items), Tail(outcomes))
       IN IF Head(outcomes) = "fulfils" THEN <<FcResult(Head(items))>> \o rest ELSE rest

C28_Expanded == {i \in 1..Len(sections) : sections[i].id = expandedId}

\* C28: at most one accordion is expanded at any time and the section ids are
\* pairwise distinct; the Introduction is the expanded one when the component
\* mounts and after every change of the article HTML; pressing the expanded
\* accordion leaves none expanded, and pressing another one expands that one
\* and collapses the one that was expanded.
C28_OneExpanded ==
  /\ [](/\ Cardinality(C28_Expanded) <= 1
        /\ \A i, j \in 1..Len(sections) : sections[i].id = sections[j].id => i = j
        /\ \A i \in 1..Len(sections) : sections[i].id \in AccordionIds)
  /\ [][/\ (Mount(articleHtml') \/ ArticleChange(articleHtml')) =>
             /\ expandedId' = "intro"
             /\ \E i \in 1..Len(sections') : sections'[i].id = "intro"
        /\ \A id \in AccordionIds :
             Press(id) =>
               /\ expandedId = id => expandedId' = "null"
               /\ expandedId # id =>
                    /\ expandedId' = id
                    /\ \A i \in 1..Len(sections') : sections'[i].id = expandedId =>
                         sections'[i].id # expandedId'
       ]_vars

\* An article with an infobox and two sections whose second section was
\* pressed while the Introduction was expanded, and then rendered
C28_Witness ==
  /\ mounted
  /\ Len(sections) = 4
  /\ expandedId = SectionId(1)
  /\ ~renderPending
  /\ sections[4].preloaded


\* Preloading is at rest: every update is rendered, no preload run is
\* scheduled or waiting, every closed section is preloaded or carries an
\* error, and no section is loading
C29_Quiescent ==
  /\ ~renderPending
  /\ preload.pc \in {"none", "done"}
  /\ \A i \in 1..Len(sections) :
       /\ ~sections[i].loading
       /\ sections[i].id # expandedId =>
            sections[i].preloaded \/ sections[i].error # "null"

\* C29: while the Introduction stays expanded, preloading comes to rest after
\* finitely many state updates, also when the parse of a section fails.
C29_Original == mounted ~> [](mounted /\ C29_Quiescent)

====
